---- MODULE Spec2Model ----
(***************************************************************************)
(* Token lifecycle and credential store of instagram_auth:                 *)
(*   token_manager.py  TokenManager  (Fernet vault + META_TOKENS table)    *)
(*   auth.py           MetaAuth      (OAuth flow controller)               *)
(*   streamlit_app.py  make_api_call (consumer of get_user_token)          *)
(* Every Streamlit session runs the script on its own thread against the   *)
(* one cached TokenManager/MetaAuth, so the entry points are run by        *)
(* several processes whose store statements interleave.                    *)
(***************************************************************************)
EXTENDS Integers, Sequences, FiniteSets, TLC

(***************************************************************************)
(* Bounds of the model.                                                    *)
(***************************************************************************)
MaxClock == 1
MaxCalls == 2
MaxFlows == 1

Procs == {"p1", "p2"}
\* Every session runs as st.session_state.user_id = "default_user"
\* (streamlit_app.py:39); the table may hold records of other users.
DefaultUser == "default_user"
Users == {DefaultUser}
OtherUser == "other_user"

VARIABLES
    table,    \* rows of META_TOKENS
    schema,   \* column defaults of the manually created table
    clock,    \* wall clock read by datetime.now() / CURRENT_TIMESTAMP()
    calls,    \* number of entry-point calls started so far
    proc,     \* each process: its position and the locals of its running call
    written,  \* history: per user, the last store_user_token that was merged
    last      \* history: the call that returned last, with what it returned

vars == <<table, schema, clock, calls, proc, written, last>>

(***************************************************************************)
(* Credential vault: Fernet under the process-wide ENCRYPTION_KEY.         *)
(* A credential value is plaintext, a Fernet token, or absent.             *)
(***************************************************************************)
ProcessKey == "k1"

Plain(s) == [kind |-> "plain", key |-> "none", text |-> s]
NoToken == [kind |-> "absent", key |-> "none", text |-> ""]

encrypt_token(token) == [kind |-> "fernet", key |-> ProcessKey, text |-> token.text]

\* Faulty variant of DecryptRaises: a token made under another key is accepted.
DecryptRaisesOnCorruptOnly(encrypted_token) == encrypted_token.kind # "fernet"

\* Fernet.decrypt raises InvalidToken unless the input is a Fernet token made
\* under the same key.
DecryptRaises(encrypted_token) ==
    ~(encrypted_token.kind = "fernet" /\ encrypted_token.key = ProcessKey)

decrypt_token(encrypted_token) == Plain(encrypted_token.text)

IsCiphertext(v) == v.kind = "fernet"

(***************************************************************************)
(* Pages (resources) as returned by /me/accounts.                          *)
(***************************************************************************)
PageOne == [id |-> "p1", name |-> "Page One", category |-> "Media",
            access_token |-> Plain("ptok1"), instagram_business_account |-> "ig1"]
PageTwo == [id |-> "p2", name |-> "Page Two", category |-> "Shop",
            access_token |-> NoToken, instagram_business_account |-> "none"]

HasAccessToken(page) == page.access_token.kind # "absent"

\* SQL NULL / Python None in the PAGES column, and json.dumps of a list.
NullPages == [isNull |-> TRUE, json |-> << >>]
JsonDumps(list) == [isNull |-> FALSE, json |-> list]

\* Faulty variant of EncryptPage: the page token is left as it came.
EncryptPageSkipped(page) == page

\* Lines 62-65: page.copy() with its access_token, if any, encrypted.
EncryptPage(page) ==
    IF HasAccessToken(page)
    THEN [page EXCEPT !.access_token = encrypt_token(page.access_token)]
    ELSE page

\* Faulty variant of EncryptPages: an empty list is stored as the text "[]".
EncryptPagesEmptyAsList(pages) ==
    JsonDumps([i \in 1..Len(pages) |-> EncryptPage(pages[i])])

\* Lines 57-66: `if pages:` -- None and [] both leave encrypted_pages None.
EncryptPages(pages) ==
    IF pages = << >>
    THEN NullPages
    ELSE JsonDumps([i \in 1..Len(pages) |-> EncryptPage(pages[i])])

(***************************************************************************)
(* The META_TOKENS table.                                                  *)
(***************************************************************************)
NullTs == << >>
Ts(t) == <<t>>

Schemas == {"with_defaults", "without_defaults"}
DefaultNeedsReauth(sch) == IF sch = "with_defaults" THEN "FALSE" ELSE "NULL"
DefaultLastRefreshed(sch, now) == IF sch = "with_defaults" THEN Ts(now) ELSE NullTs

NoRow == [USER_ID |-> "none", META_USER_ID |-> "none", ACCESS_TOKEN |-> NoToken,
          TOKEN_EXPIRY |-> 0, PAGES |-> NullPages, NEEDS_REAUTH |-> "NULL",
          LAST_REFRESHED |-> NullTs]

RowsOf(tbl, user_id) == {r \in tbl : r.USER_ID = user_id}

\* Faulty variant of Merge: the UPDATE branch leaves NEEDS_REAUTH as it is.
MergeKeepingFlag(tbl, user_id, meta_user_id, encrypted_token, expiry_date, encrypted_pages, now, sch) ==
    IF RowsOf(tbl, user_id) # {}
    THEN {IF r.USER_ID = user_id
          THEN [r EXCEPT !.META_USER_ID = meta_user_id,
                         !.ACCESS_TOKEN = encrypted_token,
                         !.TOKEN_EXPIRY = expiry_date,
                         !.PAGES = encrypted_pages,
                         !.LAST_REFRESHED = Ts(now)]
          ELSE r : r \in tbl}
    ELSE tbl \cup {[USER_ID |-> user_id, META_USER_ID |-> meta_user_id,
                    ACCESS_TOKEN |-> encrypted_token, TOKEN_EXPIRY |-> expiry_date,
                    PAGES |-> encrypted_pages,
                    NEEDS_REAUTH |-> DefaultNeedsReauth(sch),
                    LAST_REFRESHED |-> DefaultLastRefreshed(sch, now)]}

\* Faulty variant of Merge: a NULL PAGES argument keeps the stored PAGES.
MergeKeepingPages(tbl, user_id, meta_user_id, encrypted_token, expiry_date, encrypted_pages, now, sch) ==
    IF RowsOf(tbl, user_id) # {}
    THEN {IF r.USER_ID = user_id
          THEN [r EXCEPT !.META_USER_ID = meta_user_id,
                         !.ACCESS_TOKEN = encrypted_token,
                         !.TOKEN_EXPIRY = expiry_date,
                         !.PAGES = IF encrypted_pages.isNull THEN @ ELSE encrypted_pages,
                         !.LAST_REFRESHED = Ts(now),
                         !.NEEDS_REAUTH = "FALSE"]
          ELSE r : r \in tbl}
    ELSE tbl \cup {[USER_ID |-> user_id, META_USER_ID |-> meta_user_id,
                    ACCESS_TOKEN |-> encrypted_token, TOKEN_EXPIRY |-> expiry_date,
                    PAGES |-> encrypted_pages,
                    NEEDS_REAUTH |-> DefaultNeedsReauth(sch),
                    LAST_REFRESHED |-> DefaultLastRefreshed(sch, now)]}

\* The MERGE statement of lines 69-85, keyed by USER_ID.
Merge(tbl, user_id, meta_user_id, encrypted_token, expiry_date, encrypted_pages, now, sch) ==
    IF RowsOf(tbl, user_id) # {}
    THEN {IF r.USER_ID = user_id
          THEN [r EXCEPT !.META_USER_ID = meta_user_id,
                         !.ACCESS_TOKEN = encrypted_token,
                         !.TOKEN_EXPIRY = expiry_date,
                         !.PAGES = encrypted_pages,
                         !.LAST_REFRESHED = Ts(now),
                         !.NEEDS_REAUTH = "FALSE"]
          ELSE r : r \in tbl}
    ELSE tbl \cup {[USER_ID |-> user_id, META_USER_ID |-> meta_user_id,
                    ACCESS_TOKEN |-> encrypted_token, TOKEN_EXPIRY |-> expiry_date,
                    PAGES |-> encrypted_pages,
                    NEEDS_REAUTH |-> DefaultNeedsReauth(sch),
                    LAST_REFRESHED |-> DefaultLastRefreshed(sch, now)]}

\* Faulty variant of MarkUpdate: the statement resets LAST_REFRESHED as well.
MarkUpdateRefreshing(tbl, user_id) ==
    {IF r.USER_ID = user_id
     THEN [r EXCEPT !.NEEDS_REAUTH = "TRUE", !.LAST_REFRESHED = << >>]
     ELSE r : r \in tbl}

\* Faulty variant of MarkUpdate: the statement has no WHERE clause.
MarkUpdateAllRows(tbl, user_id) ==
    {[r EXCEPT !.NEEDS_REAUTH = "TRUE"] : r \in tbl}

\* Faulty variant of MarkUpdate: the statement matches no row.
MarkUpdateSkipped(tbl, user_id) == tbl

\* The UPDATE statement of lines 153-157, keyed by USER_ID.
MarkUpdate(tbl, user_id) ==
    {IF r.USER_ID = user_id THEN [r EXCEPT !.NEEDS_REAUTH = "TRUE"] ELSE r : r \in tbl}

(***************************************************************************)
(* get_user_token: the decisions taken on the fetched record.              *)
(***************************************************************************)
None == [kind |-> "None"]
Marker == [kind |-> "Marker", needs_reauth |-> TRUE]
NotCalled == [kind |-> "NotCalled"]

\* Faulty variant of Truthy: the flag is not looked at.
TruthyNever(needs_reauth) == FALSE

\* `if needs_reauth:` -- SQL NULL arrives as None, which is falsy.
Truthy(needs_reauth) == needs_reauth = "TRUE"

\* Faulty variant of Expired: the comparison the wrong way round.
ExpiredReversed(token_expiry, now) == token_expiry > now

\* `token_expiry < datetime.now()`
Expired(token_expiry, now) == token_expiry < now

\* The connector hands a VARIANT column to Python as a str holding the JSON
\* document (NULL as None); the code does not json.loads it.
FetchedPages(column) ==
    IF column.isNull THEN [pytype |-> "NoneType", json |-> << >>]
    ELSE [pytype |-> "str", json |-> column.json]

\* `if encrypted_pages:` then `for page in encrypted_pages: dict(page)`.
\* Iterating a str yields one-character strings and dict() of one raises
\* ValueError; a list of objects would be copied element by element.
PagesLoopRaises(fetched) ==
    \/ fetched.pytype = "str"
    \/ /\ fetched.pytype = "list"
       /\ \E i \in 1..Len(fetched.json) :
            HasAccessToken(fetched.json[i]) /\ DecryptRaises(fetched.json[i].access_token)

DecryptPage(page) ==
    IF HasAccessToken(page)
    THEN [page EXCEPT !.access_token = decrypt_token(page.access_token)]
    ELSE page

DecryptedPages(fetched) ==
    IF fetched.pytype = "NoneType"
    THEN [isNone |-> TRUE, list |-> << >>]
    ELSE [isNone |-> FALSE,
          list |-> [i \in 1..Len(fetched.json) |-> DecryptPage(fetched.json[i])]]

\* Lines 123-146: the value returned for an unflagged, unexpired record.
TokenRecord(record) ==
    IF DecryptRaises(record.ACCESS_TOKEN) \/ PagesLoopRaises(FetchedPages(record.PAGES))
    THEN None
    ELSE [kind |-> "Record",
          user_id |-> record.USER_ID,
          meta_user_id |-> record.META_USER_ID,
          access_token |-> decrypt_token(record.ACCESS_TOKEN),
          token_expiry |-> record.TOKEN_EXPIRY,
          pages |-> DecryptedPages(FetchedPages(record.PAGES)),
          needs_reauth |-> FALSE]

\* make_api_call line 49: `not token_data or token_data.get('needs_reauth')`
AuthenticationRequired(token_data) ==
    token_data.kind = "None" \/ token_data.kind = "Marker"

(***************************************************************************)
(* Arguments the callers pass to store_user_token.                         *)
(***************************************************************************)
UpsertInputs ==
    {[meta_user_id |-> "fb1", access_token |-> Plain("tokA"), expires_in |-> 1,
      pages |-> <<PageOne>>],
     [meta_user_id |-> "fb2", access_token |-> Plain("tokB"), expires_in |-> 0,
      pages |-> << >>],
     [meta_user_id |-> "fb1", access_token |-> Plain("tokB"), expires_in |-> -1,
      pages |-> <<PageTwo, PageOne>>],
     [meta_user_id |-> "fb2", access_token |-> Plain("tokA"), expires_in |-> 1,
      pages |-> << >>]}

NoArgs == [meta_user_id |-> "none", access_token |-> NoToken, expires_in |-> 0,
           pages |-> << >>]
NoEnc == [encrypted_token |-> NoToken, expiry_date |-> 0, encrypted_pages |-> NullPages]
NoUpsert == [merged |-> FALSE, args |-> NoArgs, now |-> 0, cleared |-> FALSE]
NoResult == [kind |-> "NotCalled"]

(***************************************************************************)
(* Initial state: the table as earlier runs left it, every process idle.   *)
(***************************************************************************)
IdleProc ==
    [pc |-> "idle", entry |-> "none", user_id |-> "none",
     record |-> NoRow, now |-> 0, seen |-> NoUpsert,
     args |-> NoArgs, enc |-> NoEnc, wrote |-> FALSE,
     acct |-> NoArgs, access_token |-> NoToken, long_lived_token |-> NoToken,
     expires_in |-> 0, user_info |-> "none", pages |-> << >>, trace |-> << >>]

NoCall ==
    [entry |-> "none", user_id |-> "none",
     record |-> NoRow, now |-> 0, seen |-> NoUpsert,
     token_data |-> NotCalled, sent |-> NoToken,
     args |-> NoArgs, enc |-> NoEnc, success |-> "notcalled", wrote |-> FALSE,
     acct |-> NoArgs, trace |-> << >>, result |-> NoResult]

\* The record of another user, stored before this process started.
BystanderRow ==
    [USER_ID |-> OtherUser, META_USER_ID |-> "fb9",
     ACCESS_TOKEN |-> encrypt_token(Plain("tokZ")), TOKEN_EXPIRY |-> 0,
     PAGES |-> EncryptPages(<<PageOne>>), NEEDS_REAUTH |-> "FALSE",
     LAST_REFRESHED |-> Ts(-1)]

\* Lines 51-66: encrypted_token, expiry_date, encrypted_pages.
Prepared(a, now) ==
    [encrypted_token |-> encrypt_token(a.access_token),
     expiry_date |-> now + a.expires_in,
     encrypted_pages |-> EncryptPages(a.pages)]

\* The table outlives the process.  For the session user it holds nothing, or
\* the record an earlier run stored one clock unit before this one started,
\* which an earlier get_user_token has marked if it had expired by then.
EarlierInputs == {a \in UpsertInputs : a.pages # << >>}
EarlierRuns ==
    {[stored |-> FALSE, args |-> NoArgs, marked |-> FALSE]}
    \cup {[stored |-> TRUE, args |-> a, marked |-> m] :
            a \in EarlierInputs, m \in BOOLEAN}

EarlierTable(e, sch) ==
    IF ~e.stored
    THEN {BystanderRow}
    ELSE LET enc == Prepared(e.args, 0 - 1)
             t == Merge({BystanderRow}, DefaultUser, e.args.meta_user_id,
                        enc.encrypted_token, enc.expiry_date, enc.encrypted_pages,
                        0 - 1, sch)
         IN IF e.marked THEN MarkUpdate(t, DefaultUser) ELSE t

EarlierWritten(e) ==
    IF e.stored
    THEN [merged |-> TRUE, args |-> e.args, now |-> 0 - 1, cleared |-> FALSE]
    ELSE NoUpsert

Init ==
    /\ schema \in Schemas
    /\ \E e \in EarlierRuns :
         /\ e.marked => Expired((0 - 1) + e.args.expires_in, 0)
         /\ table = EarlierTable(e, schema)
         /\ written = [u \in Users |-> EarlierWritten(e)]
    /\ clock = 0
    /\ calls = 0
    /\ proc = [p \in Procs |-> IdleProc]
    /\ last = NoCall

(***************************************************************************)
(* The clock: it advances, and the host may set it back.                   *)
(***************************************************************************)
Tick ==
    /\ clock < MaxClock
    /\ clock' = clock + 1
    /\ UNCHANGED <<table, schema, calls, proc, written, last>>

Rewind ==
    /\ clock > 0
    /\ clock' = clock - 1
    /\ UNCHANGED <<table, schema, calls, proc, written, last>>

(***************************************************************************)
(* Calls.  A process that is idle starts a call; when the call returns its *)
(* locals are dropped and `last` keeps what it returned.                   *)
(***************************************************************************)
Ready(p) == proc[p].pc = "idle" /\ calls < MaxCalls
ReadyForFlow(p) == proc[p].pc = "idle" /\ calls < MaxFlows

Returned(l) ==
    [entry |-> l.entry, user_id |-> l.user_id,
     record |-> l.record, now |-> l.now, seen |-> l.seen,
     token_data |-> NotCalled, sent |-> NoToken,
     args |-> l.args, enc |-> l.enc, success |-> "notcalled", wrote |-> l.wrote,
     acct |-> l.acct, trace |-> l.trace, result |-> NoResult]

(***************************************************************************)
(* Remote authority (Graph API) as seen by MetaAuth: every request either  *)
(* fails to connect, answers non-2xx, answers 200 without the expected     *)
(* field, or answers 200 with the account's data.  The pages request asks  *)
(* for the linked Instagram account of every page in the same request      *)
(* (fields=...,instagram_business_account{id,name,username}); when the     *)
(* authority cannot resolve them it rejects the request ("linked_error",   *)
(* a non-2xx answer); a 200 answer may also carry a body that is not JSON. *)
(***************************************************************************)
Outcomes == {"ok", "network_error", "http_error", "missing_field"}
PagesOutcomes == {"ok", "network_error", "http_error", "linked_error", "bad_json"}

ShortLived == Plain("short")

\* Faulty variant of StageRaises: a missing field is read with a default.
StageRaisesOnTransportOnly(outcome) == outcome \in {"network_error", "http_error"}

\* exchange_code_for_token, get_long_lived_token, get_user_info (lines 33-69)
\* followed by the subscript on the answer: requests.get raises on a network
\* error, raise_for_status on a non-2xx answer, the subscript on a missing key.
StageRaises(outcome) == outcome # "ok"

\* get_pages (lines 71-82): requests.get raises on a network error and
\* response.json() on a body that is not JSON; any answer other than 200 is
\* turned into an empty list.
GetPagesRaises(outcome) == outcome \in {"network_error", "bad_json"}
GetPages(outcome, a) == IF outcome = "ok" THEN a.pages ELSE << >>

Stage(name, outcome) == [stage |-> name, outcome |-> outcome]

(***************************************************************************)
(* What the callers of store_user_token return.                            *)
(***************************************************************************)
NoneResult == [kind |-> "None"]
Connected(user_info, pages) ==
    [kind |-> "Connected", user_info |-> user_info, pages |-> pages]
Bool(b) == [kind |-> "Bool", value |-> b]

\* Faulty variant of ResultAfterStore: `success` is not looked at.
ResultIgnoringStore(l, success) ==
    CASE l.entry = "oauth" -> Connected(l.user_info, l.pages)
      [] l.entry = "existing" -> Bool(TRUE)
      [] OTHER -> NoResult

\* complete_oauth_flow lines 130-139, store_existing_token lines 159-162.
ResultAfterStore(l, success) ==
    CASE l.entry = "oauth" ->
            IF success = "true" THEN Connected(l.user_info, l.pages) ELSE NoneResult
      [] l.entry = "existing" -> Bool(success = "true")
      [] OTHER -> NoResult

\* The except branches of the two flows (lines 137-139 and 160-162).
ResultOnException(l) ==
    IF l.entry = "oauth" THEN NoneResult ELSE Bool(FALSE)

(***************************************************************************)
(* store_user_token.                                                       *)
(***************************************************************************)
\* Faulty variant of StoreResult: True whether or not the MERGE was executed.
StoreResultAlwaysTrue(executed) == "true"

\* Lines 87-91: True after the MERGE was executed, False from the except branch.
StoreResult(executed) == IF executed THEN "true" ELSE "false"

\* The return of store_user_token, and of the flow that called it.
UpsertReturns(p, l, success) ==
    /\ proc' = [proc EXCEPT ![p] = IdleProc]
    /\ last' = [Returned(l) EXCEPT !.success = success,
                                   !.result = ResultAfterStore(l, success)]

\* Lines 45-66: the call; connect, encrypt, compute the expiry; an exception
\* in any of them -> False.
CallStoreUserToken(p, l, a) ==
    LET lc == [l EXCEPT !.args = a, !.trace = Append(@, Stage("persist", "called"))]
    IN \/ /\ proc' = [proc EXCEPT ![p] =
                 [lc EXCEPT !.pc = "u_merge", !.enc = Prepared(a, clock)]]
          /\ UNCHANGED last
       \/ UpsertReturns(p, lc, StoreResult(FALSE))

StoreUserToken(p, u, a) ==
    /\ Ready(p)
    /\ calls' = calls + 1
    /\ CallStoreUserToken(p, [IdleProc EXCEPT !.entry = "upsert", !.user_id = u], a)
    /\ UNCHANGED <<table, schema, clock, written>>

\* Lines 69-91: the MERGE statement; an exception -> False.  A statement that
\* raises has had no effect on the table.
UpsertMerge(p) ==
    /\ proc[p].pc = "u_merge"
    /\ LET l == proc[p]
       IN \/ /\ table' = Merge(table, l.user_id, l.args.meta_user_id,
                               l.enc.encrypted_token, l.enc.expiry_date,
                               l.enc.encrypted_pages, clock, schema)
             /\ written' = [written EXCEPT ![l.user_id] =
                    [merged |-> TRUE, args |-> l.args,
                     now |-> l.enc.expiry_date - l.args.expires_in,
                     cleared |-> \E r \in RowsOf(table, l.user_id) :
                                    Truthy(r.NEEDS_REAUTH)]]
             /\ UpsertReturns(p, [l EXCEPT !.wrote = TRUE], StoreResult(TRUE))
          \/ /\ UpsertReturns(p, l, StoreResult(FALSE))
             /\ UNCHANGED <<table, written>>
    /\ UNCHANGED <<schema, clock, calls>>

(***************************************************************************)
(* make_api_call -> get_user_token -> _mark_token_for_reauth.              *)
(***************************************************************************)
\* make_api_call lines 49-53: the access_token put into the request.
RequestToken(token_data) ==
    IF AuthenticationRequired(token_data) THEN NoToken ELSE token_data.access_token

\* The return of get_user_token to make_api_call, and what that then sends.
FetchReturns(p, l, token_data) ==
    /\ proc' = [proc EXCEPT ![p] = IdleProc]
    /\ last' = [Returned(l) EXCEPT !.token_data = token_data,
                                   !.sent = RequestToken(token_data)]

\* Lines 96-115: connect, SELECT, fetchone, `if not record`, `if needs_reauth`.
MakeApiCall(p, u) ==
    /\ Ready(p)
    /\ calls' = calls + 1
    /\ LET l == [IdleProc EXCEPT !.entry = "api", !.user_id = u]
       IN \/ FetchReturns(p, l, None)                    \* connect/execute raised
          \/ /\ RowsOf(table, u) = {}
             /\ FetchReturns(p, l, None)
          \/ \E r \in RowsOf(table, u) :
               LET lr == [l EXCEPT !.record = r, !.seen = written[u]]
               IN IF Truthy(r.NEEDS_REAUTH)
                  THEN FetchReturns(p, lr, Marker)
                  ELSE /\ proc' = [proc EXCEPT ![p] = [lr EXCEPT !.pc = "f_check"]]
                       /\ UNCHANGED last
    /\ UNCHANGED <<table, schema, clock, written>>

\* Lines 117-146: read the clock, then either go on to mark or decrypt and return.
FetchCheck(p) ==
    /\ proc[p].pc = "f_check"
    /\ LET l == [proc[p] EXCEPT !.now = clock]
       IN IF Expired(l.record.TOKEN_EXPIRY, clock)
          THEN /\ proc' = [proc EXCEPT ![p] = [l EXCEPT !.pc = "f_mark"]]
               /\ UNCHANGED last
          ELSE FetchReturns(p, l, TokenRecord(l.record))
    /\ UNCHANGED <<table, schema, clock, calls, written>>

\* Lines 120-121 with _mark_token_for_reauth (148-160): the UPDATE, or an
\* exception that is reported and swallowed; then the marker is returned.
FetchMark(p) ==
    /\ proc[p].pc = "f_mark"
    /\ \/ /\ table' = MarkUpdate(table, proc[p].user_id)
          /\ FetchReturns(p, [proc[p] EXCEPT !.wrote = TRUE], Marker)
       \/ /\ UNCHANGED table
          /\ FetchReturns(p, proc[p], Marker)
    /\ UNCHANGED <<schema, clock, calls, written>>

(***************************************************************************)
(* MetaAuth.complete_oauth_flow (auth.py 106-139).                         *)
(***************************************************************************)
\* A flow leaves through its except branch.
FlowAborts(p, l) ==
    /\ proc' = [proc EXCEPT ![p] = IdleProc]
    /\ last' = [Returned(l) EXCEPT !.result = ResultOnException(l)]

\* Lines 110-111: exchange the code; a is what the authority holds for it.
CompleteOAuthFlow(p, u, a) ==
    /\ ReadyForFlow(p)
    /\ calls' = calls + 1
    /\ \E o \in Outcomes :
         LET l == [IdleProc EXCEPT !.entry = "oauth", !.user_id = u, !.acct = a,
                                   !.trace = <<Stage("exchange", o)>>]
         IN IF StageRaises(o)
            THEN FlowAborts(p, l)
            ELSE /\ proc' = [proc EXCEPT ![p] =
                        [l EXCEPT !.pc = "o_upgrade", !.access_token = ShortLived]]
                 /\ UNCHANGED last
    /\ UNCHANGED <<table, schema, clock, written>>

\* Lines 114-116: get_long_lived_token, ['access_token'], ['expires_in'].
OAuthUpgrade(p) ==
    /\ proc[p].pc = "o_upgrade"
    /\ \E o \in Outcomes :
         LET l == [proc[p] EXCEPT !.trace = Append(@, Stage("upgrade", o))]
         IN IF StageRaises(o)
            THEN FlowAborts(p, l)
            ELSE /\ proc' = [proc EXCEPT ![p] =
                        [l EXCEPT !.pc = "o_identity",
                                  !.long_lived_token = l.acct.access_token,
                                  !.expires_in = l.acct.expires_in]]
                 /\ UNCHANGED last
    /\ UNCHANGED <<table, schema, clock, calls, written>>

\* Lines 119-120: get_user_info(long_lived_token), ['id'].
OAuthIdentity(p) ==
    /\ proc[p].pc = "o_identity"
    /\ \E o \in Outcomes :
         LET l == [proc[p] EXCEPT !.trace = Append(@, Stage("identity", o))]
         IN IF StageRaises(o)
            THEN FlowAborts(p, l)
            ELSE /\ proc' = [proc EXCEPT ![p] =
                        [l EXCEPT !.pc = "o_pages", !.user_info = l.acct.meta_user_id]]
                 /\ UNCHANGED last
    /\ UNCHANGED <<table, schema, clock, calls, written>>

\* The arguments of the store_user_token call on lines 126-128.
OAuthStoreArgs(l) ==
    [meta_user_id |-> l.user_info, access_token |-> l.long_lived_token,
     expires_in |-> l.expires_in, pages |-> l.pages]

\* Lines 123-128: get_pages(long_lived_token), then store_user_token is called.
OAuthPages(p) ==
    /\ proc[p].pc = "o_pages"
    /\ \E o \in PagesOutcomes :
         LET l == [proc[p] EXCEPT !.trace = Append(@, Stage("pages", o))]
         IN IF GetPagesRaises(o)
            THEN FlowAborts(p, l)
            ELSE LET lp == [l EXCEPT !.pages = GetPages(o, l.acct)]
                 IN CallStoreUserToken(p, lp, OAuthStoreArgs(lp))
    /\ UNCHANGED <<table, schema, clock, calls, written>>

(***************************************************************************)
(* MetaAuth.store_existing_token (auth.py 141-162).                        *)
(***************************************************************************)
DefaultExpiryDays == 60

\* Faulty variant of ExpiresInOfDays: the days are converted to minutes.
ExpiresInOfDaysAsMinutes(expiry_days) == expiry_days * 24 * 60

\* Line 152.
ExpiresInOfDays(expiry_days) == expiry_days * 24 * 60 * 60

\* Lines 145-146: get_user_info(access_token), ['id'].
StoreExistingToken(p, u, a) ==
    /\ ReadyForFlow(p)
    /\ calls' = calls + 1
    /\ \E o \in Outcomes :
         LET l == [IdleProc EXCEPT !.entry = "existing", !.user_id = u, !.acct = a,
                                   !.access_token = a.access_token,
                                   !.trace = <<Stage("identity", o)>>]
         IN IF StageRaises(o)
            THEN FlowAborts(p, l)
            ELSE /\ proc' = [proc EXCEPT ![p] =
                        [l EXCEPT !.pc = "e_pages", !.user_info = a.meta_user_id]]
                 /\ UNCHANGED last
    /\ UNCHANGED <<table, schema, clock, written>>

\* The arguments of the store_user_token call on lines 155-157.
ExistingStoreArgs(l) ==
    [meta_user_id |-> l.user_info, access_token |-> l.access_token,
     expires_in |-> l.expires_in, pages |-> l.pages]

\* Lines 149-157: get_pages(access_token), the assumed lifetime, store_user_token.
ExistingPages(p) ==
    /\ proc[p].pc = "e_pages"
    /\ \E o \in PagesOutcomes :
         LET l == [proc[p] EXCEPT !.trace = Append(@, Stage("pages", o))]
         IN IF GetPagesRaises(o)
            THEN FlowAborts(p, l)
            ELSE LET lp == [l EXCEPT !.pages = GetPages(o, l.acct),
                                     !.expires_in = ExpiresInOfDays(DefaultExpiryDays)]
                 IN CallStoreUserToken(p, lp, ExistingStoreArgs(lp))
    /\ UNCHANGED <<table, schema, clock, calls, written>>

(***************************************************************************)
(* Specifications.                                                         *)
(***************************************************************************)
\* The token store driven directly by its callers.
Next ==
    \/ Tick
    \/ Rewind
    \/ \E p \in Procs, u \in Users : MakeApiCall(p, u)
    \/ \E p \in Procs, u \in Users, a \in UpsertInputs : StoreUserToken(p, u, a)
    \/ \E p \in Procs : UpsertMerge(p)
    \/ \E p \in Procs : FetchCheck(p)
    \/ \E p \in Procs : FetchMark(p)

Spec == Init /\ [][Next]_vars

\* The token store driven through the two flows of MetaAuth.
FlowNext ==
    \/ Tick
    \/ \E p \in Procs, u \in Users, a \in UpsertInputs : CompleteOAuthFlow(p, u, a)
    \/ \E p \in Procs : OAuthUpgrade(p)
    \/ \E p \in Procs : OAuthIdentity(p)
    \/ \E p \in Procs : OAuthPages(p)
    \/ \E p \in Procs, u \in Users, a \in UpsertInputs : StoreExistingToken(p, u, a)
    \/ \E p \in Procs : ExistingPages(p)
    \/ \E p \in Procs : UpsertMerge(p)

FlowSpec == Init /\ [][FlowNext]_vars

\* The token store as a deployment under another ENCRYPTION_KEY, or a damaged
\* write, left it: the stored tokens of the session user do not decrypt
\* under the key of this process.
EarlierKey == "k0"
Damages == {"rekeyed", "corrupt"}

Damaged(v, damage) ==
    IF v.kind # "fernet" THEN v
    ELSE IF damage = "rekeyed" THEN [v EXCEPT !.key = EarlierKey]
    ELSE [v EXCEPT !.kind = "corrupt"]

DamagedPages(column, damage) ==
    IF column.isNull THEN column
    ELSE JsonDumps([i \in 1..Len(column.json) |->
            [column.json[i] EXCEPT !.access_token = Damaged(@, damage)]])

DamagedRow(r, damage) ==
    [r EXCEPT !.ACCESS_TOKEN = Damaged(@, damage),
              !.PAGES = DamagedPages(@, damage)]

RotatedRuns ==
    {[stored |-> FALSE, args |-> NoArgs, marked |-> FALSE]}
    \cup {[stored |-> TRUE, args |-> a, marked |-> a.pages # << >>] :
            a \in {b \in UpsertInputs : b.expires_in # 0}}

RotatedInit ==
    /\ schema \in Schemas
    /\ \E e \in RotatedRuns, damage \in Damages :
         /\ e.marked => Expired((0 - 1) + e.args.expires_in, 0)
         /\ table = {IF r.USER_ID = DefaultUser THEN DamagedRow(r, damage) ELSE r :
                        r \in EarlierTable(e, schema)}
         /\ written = [u \in Users |-> EarlierWritten(e)]
    /\ clock = 0
    /\ calls = 0
    /\ proc = [p \in Procs |-> IdleProc]
    /\ last = NoCall

RotatedSpec == RotatedInit /\ [][Next]_vars

\* The token store used by one session at a time, on a host whose clock is
\* never set back: a call starts only when no other call is under way.
NoCallUnderWay == \A p \in Procs : proc[p].pc = "idle"

SeqMakeApiCall(p, u) == NoCallUnderWay /\ MakeApiCall(p, u)
SeqStoreUserToken(p, u, a) == NoCallUnderWay /\ StoreUserToken(p, u, a)

SeqNext ==
    \/ Tick
    \/ \E p \in Procs, u \in Users : SeqMakeApiCall(p, u)
    \/ \E p \in Procs, u \in Users, a \in UpsertInputs : SeqStoreUserToken(p, u, a)
    \/ \E p \in Procs : UpsertMerge(p)
    \/ \E p \in Procs : FetchCheck(p)
    \/ \E p \in Procs : FetchMark(p)

SeqSpec == Init /\ [][SeqNext]_vars

(***************************************************************************)
(* Properties.                                                             *)
(***************************************************************************)
Fetched == last.entry = "api" /\ last.record # NoRow
Flagged(r) == r.NEEDS_REAUTH = "TRUE"
Idle == \A p \in Procs : proc[p].pc = "idle"

\* The stored form of a credential: a Fernet token of that plaintext.
StoredFormOf(stored, plaintext) ==
    stored.kind = "fernet" /\ stored.key = ProcessKey /\ stored.text = plaintext.text

\* The PAGES column holds exactly these pages, each token in stored form.
StoredPagesAre(column, pages) ==
    IF pages = << >>
    THEN column.isNull
    ELSE /\ ~column.isNull
         /\ Len(column.json) = Len(pages)
         /\ \A i \in 1..Len(pages) :
              /\ column.json[i].id = pages[i].id
              /\ column.json[i].name = pages[i].name
              /\ column.json[i].category = pages[i].category
              /\ column.json[i].instagram_business_account
                    = pages[i].instagram_business_account
              /\ IF pages[i].access_token.kind = "absent"
                 THEN column.json[i].access_token.kind = "absent"
                 ELSE StoredFormOf(column.json[i].access_token, pages[i].access_token)

\* C1: a fetch whose record is flagged, or whose expiry is earlier than the
\* clock it read, returns the marker and no token, and make_api_call then
\* sends no token; a token is returned or sent only for an unflagged record
\* that has not expired.
C1_NoTokenWhenStale ==
    /\ Fetched /\ (Flagged(last.record) \/ last.record.TOKEN_EXPIRY < last.now)
          => last.token_data = Marker /\ last.sent = NoToken
    /\ last.token_data.kind = "Record"
          => /\ Fetched
             /\ ~Flagged(last.record)
             /\ ~(last.record.TOKEN_EXPIRY < last.now)
    /\ last.sent # NoToken
          => last.token_data.kind = "Record" /\ last.sent = last.token_data.access_token

C1_Witness ==
    /\ Fetched
    /\ ~Flagged(last.record)
    /\ last.record.TOKEN_EXPIRY < last.now
    /\ last.token_data = Marker
    /\ last.sent = NoToken

\* C2: a fetch that reads a flagged record returns the marker whatever the
\* clock; the first fetch after the upsert that cleared the flag, made while
\* the new expiry is still ahead, returns a full record with needs_reauth false.
C2_ReauthStickiness ==
    /\ Fetched /\ Flagged(last.record) => last.token_data = Marker
    /\ /\ Fetched
       /\ last.seen.cleared
       /\ ~Flagged(last.record)
       /\ last.record.TOKEN_EXPIRY > last.now
       => last.token_data.kind = "Record" /\ last.token_data.needs_reauth = FALSE

\* C3: the first fetch after an upsert with a lifetime of 0 returns the
\* marker, for every clock value it reads that is not before the write.
C3_ZeroLifetimeExpired ==
    /\ Fetched
    /\ last.seen.merged
    /\ last.seen.args.expires_in = 0
    /\ ~Flagged(last.record)
    /\ last.now >= last.seen.now
    => last.token_data = Marker

\* C4: the table holds exactly one record for a user whose token was stored,
\* carrying the provider id, token, expiry and pages of the last merged
\* upsert and nothing of an earlier one ...
UpsertWinsEntirely ==
    \A u \in Users :
        /\ Cardinality(RowsOf(table, u)) = IF written[u].merged THEN 1 ELSE 0
        /\ \A r \in RowsOf(table, u) :
             /\ r.META_USER_ID = written[u].args.meta_user_id
             /\ StoredFormOf(r.ACCESS_TOKEN, written[u].args.access_token)
             /\ r.TOKEN_EXPIRY = written[u].now + written[u].args.expires_in
             /\ StoredPagesAre(r.PAGES, written[u].args.pages)

\* ... and the step that merges an upsert leaves the flag cleared.
MergeClearsFlag ==
    \A p \in Procs :
        /\ proc[p].pc = "u_merge"
        /\ proc'[p].pc = "idle"
        /\ last'.success = "true"
        => \A r \in RowsOf(table', proc[p].user_id) :
              /\ ~Flagged(r)
              /\ r.META_USER_ID = proc[p].args.meta_user_id
              /\ StoredFormOf(r.ACCESS_TOKEN, proc[p].args.access_token)
              /\ StoredPagesAre(r.PAGES, proc[p].args.pages)

C4_UpsertByKey == []UpsertWinsEntirely /\ [][MergeClearsFlag]_vars

C4_Witness ==
    /\ last.entry = "upsert"
    /\ last.success = "true"
    /\ last.args.pages = << >>
    /\ written[last.user_id].cleared
    /\ \A r \in RowsOf(table, last.user_id) : r.PAGES.isNull /\ ~Flagged(r)

\* C5: when the pages request of a flow fails (network error or non-2xx),
\* store_user_token is not called and the flow has written nothing.
PagesFailed(trace) ==
    \E i \in 1..Len(trace) : trace[i].stage = "pages" /\ trace[i].outcome # "ok"
StoreCalled(trace) ==
    \E i \in 1..Len(trace) : trace[i].stage = "persist"

C5_FlowAtomicity ==
    last.entry \in {"oauth", "existing"} /\ PagesFailed(last.trace)
       => /\ ~StoreCalled(last.trace)
          /\ last.success = "notcalled"
          /\ ~last.wrote

\* C6: when the exchange, upgrade or identity stage of complete_oauth_flow
\* fails, that stage is the last one called, store_user_token is not called,
\* the flow has written nothing and it returns None; a flow under way has
\* had no failure in these stages.
EarlyStages == {"exchange", "upgrade", "identity"}

C6_AbortAtFailedStage ==
    /\ last.entry = "oauth"
          => \A i \in 1..Len(last.trace) :
                last.trace[i].stage \in EarlyStages /\ last.trace[i].outcome # "ok"
                   => /\ Len(last.trace) = i
                      /\ last.success = "notcalled"
                      /\ ~last.wrote
                      /\ last.result = NoneResult
    /\ \A p \in Procs :
          proc[p].entry = "oauth"
             => \A i \in 1..Len(proc[p].trace) :
                   proc[p].trace[i].stage \in EarlyStages
                      => proc[p].trace[i].outcome = "ok"

C6_Witness ==
    /\ last.entry = "oauth"
    /\ Len(last.trace) = 2
    /\ last.trace[2] = Stage("upgrade", "missing_field")
    /\ last.result = NoneResult
    /\ last.success = "notcalled"

\* C7: the stages of complete_oauth_flow are called in the order exchange,
\* upgrade, identity, pages, persist, each only after the one before it
\* succeeded, and store_user_token is called at most once, last, with the
\* long-lived token, its expires_in, the provider id and the listed pages.
StageOrder == <<"exchange", "upgrade", "identity", "pages", "persist">>

InOrder(trace) ==
    /\ Len(trace) <= Len(StageOrder)
    /\ \A i \in 1..Len(trace) :
          /\ trace[i].stage = StageOrder[i]
          /\ i > 1 => trace[i - 1].outcome = "ok"

C7_StageOrder ==
    /\ last.entry = "oauth"
          => /\ InOrder(last.trace)
             /\ StoreCalled(last.trace)
                   => last.args = [meta_user_id |-> last.acct.meta_user_id,
                                   access_token |-> last.acct.access_token,
                                   expires_in |-> last.acct.expires_in,
                                   pages |-> last.acct.pages]
    /\ \A p \in Procs : proc[p].entry = "oauth" => InOrder(proc[p].trace)

\* C8: once no call is under way, a record whose expiry lies beyond every
\* clock value is not flagged: the flag write of a fetch does not land on the
\* record a concurrent upsert has stored.
C8_NoLostUpdate ==
    Idle => \A u \in Users : \A r \in RowsOf(table, u) :
                r.TOKEN_EXPIRY > MaxClock => ~Flagged(r)

\* C9: a fetch of the record an upsert with a positive lifetime and pages
\* stored, before its expiry, returns the plaintext token, needs_reauth false
\* and the same pages in the same order with their plaintext tokens.
C9_RoundTrip ==
    /\ Fetched
    /\ last.seen.merged
    /\ last.seen.args.expires_in > 0
    /\ last.seen.args.pages # << >>
    /\ ~Flagged(last.record)
    /\ ~(last.record.TOKEN_EXPIRY < last.now)
    => /\ last.token_data.kind = "Record"
       /\ last.token_data.access_token = last.seen.args.access_token
       /\ last.token_data.needs_reauth = FALSE
       /\ last.token_data.pages = [isNone |-> FALSE, list |-> last.seen.args.pages]

\* C10: every stored token, of the record and of each of its pages, is a
\* Fernet token ...
OnlyCiphertextStored ==
    \A r \in table :
        /\ IsCiphertext(r.ACCESS_TOKEN)
        /\ ~r.PAGES.isNull =>
              \A i \in 1..Len(r.PAGES.json) :
                 r.PAGES.json[i].access_token.kind \in {"fernet", "absent"}

\* ... and a step that is not the MERGE of an upsert changes no column but
\* NEEDS_REAUTH.
WithoutFlag(tbl) == {[r EXCEPT !.NEEDS_REAUTH = "any"] : r \in tbl}

OnlyMergeWritesTokens ==
    (\A p \in Procs : ~(proc[p].pc = "u_merge" /\ proc'[p].pc = "idle"))
       => WithoutFlag(table') = WithoutFlag(table)

C10_CiphertextOnly == []OnlyCiphertextStored /\ [][OnlyMergeWritesTokens]_vars

C10_Witness ==
    /\ last.entry = "upsert"
    /\ last.success = "true"
    /\ \E r \in RowsOf(table, last.user_id) :
          /\ ~r.PAGES.isNull
          /\ \E i \in 1..Len(r.PAGES.json) : IsCiphertext(r.PAGES.json[i].access_token)

\* C11: a fetch of an unflagged record whose expiry is before the clock it
\* read returns the marker ...
ExpiredRecordYieldsMarker ==
    Fetched /\ ~Flagged(last.record) /\ last.record.TOKEN_EXPIRY < last.now
       => last.token_data = Marker

\* ... and the step that ends such a fetch returns the marker whether or not
\* the flag was written: when it was, the user's record is flagged after the
\* step; when the write failed, the table is as it was.
FlagWriteOutcome ==
    \A p \in Procs :
        proc[p].pc = "f_mark" /\ proc'[p].pc = "idle"
           => /\ last'.token_data = Marker
              /\ IF last'.wrote
                 THEN /\ RowsOf(table', proc[p].user_id) # {}
                      /\ \A r \in RowsOf(table', proc[p].user_id) : Flagged(r)
                 ELSE table' = table

C11_ExpiryMarks == []ExpiredRecordYieldsMarker /\ [][FlagWriteOutcome]_vars

C11_Witness ==
    /\ Fetched
    /\ ~Flagged(last.record)
    /\ last.record.TOKEN_EXPIRY < last.now
    /\ last.token_data = Marker
    /\ ~last.wrote
    /\ last.record \in table

\* C12: store_user_token returns True or False and never anything else; a
\* call that returned False has written nothing, and the step in which it
\* returns False leaves the table as it was; it returns True only when its
\* MERGE was executed.
UpsertResultIsBoolean ==
    last.entry = "upsert"
       => /\ last.success \in {"true", "false"}
          /\ last.success = "false" => ~last.wrote
          /\ last.success = "true" => last.wrote

FailedUpsertWritesNothing ==
    last' # last /\ last'.entry = "upsert" /\ last'.success = "false"
       => table' = table /\ written' = written

OnlyTheMergeReturnsTrue ==
    last' # last /\ last'.entry = "upsert" /\ last'.success = "true"
       => \E p \in Procs :
             /\ proc[p].pc = "u_merge"
             /\ proc'[p].pc = "idle"
             /\ table' = Merge(table, proc[p].user_id, proc[p].args.meta_user_id,
                               encrypt_token(proc[p].args.access_token),
                               proc[p].enc.expiry_date,
                               EncryptPages(proc[p].args.pages), clock, schema)

C12_UpsertNeverRaises ==
    /\ []UpsertResultIsBoolean
    /\ [][FailedUpsertWritesNothing]_vars
    /\ [][OnlyTheMergeReturnsTrue]_vars

C12_Witness ==
    /\ last.entry = "upsert"
    /\ last.success = "false"
    /\ ~last.wrote
    /\ RowsOf(table, last.user_id) # {}
    /\ \A r \in RowsOf(table, last.user_id) :
          ~StoredFormOf(r.ACCESS_TOKEN, last.args.access_token)

\* C13: _mark_token_for_reauth applied to any stored table changes nothing
\* but NEEDS_REAUTH of the records of that user, applied twice gives what it
\* gives applied once, and applied for a user without a record changes
\* nothing ...
AbsentUser == "absent_user"

MarkTouchesOnlyFlag ==
    \A u \in Users \cup {OtherUser, AbsentUser} :
        LET m == MarkUpdate(table, u)
        IN /\ MarkUpdate(m, u) = m
           /\ Cardinality(m) = Cardinality(table)
           /\ \A r \in table :
                 IF r.USER_ID = u
                 THEN [r EXCEPT !.NEEDS_REAUTH = "TRUE"] \in m
                 ELSE r \in m
           /\ RowsOf(table, u) = {} => m = table

\* ... and the step of get_user_token that runs it changes at most that flag
\* and returns the marker, also when the statement failed.
MarkStepFrame ==
    \A p \in Procs :
        proc[p].pc = "f_mark" /\ proc'[p].pc = "idle"
           => /\ last'.token_data = Marker
              /\ Cardinality(table') = Cardinality(table)
              /\ \A r \in table :
                    \/ r \in table'
                    \/ /\ r.USER_ID = proc[p].user_id
                       /\ [r EXCEPT !.NEEDS_REAUTH = "TRUE"] \in table'

C13_MarkOnlyFlags == []MarkTouchesOnlyFlag /\ [][MarkStepFrame]_vars

C13_Witness ==
    /\ last.entry = "api"
    /\ last.wrote
    /\ ~Flagged(last.record)
    /\ last.record.LAST_REFRESHED # NullTs
    /\ [last.record EXCEPT !.NEEDS_REAUTH = "TRUE"] \in table
    /\ MarkUpdate(table, last.user_id) = table
    /\ MarkUpdate(table, AbsentUser) = table

\* A stored value that is no Fernet token of the key of this process.
NotOfThisKey(v) == v.kind # "fernet" \/ v.key # ProcessKey

\* C14: a fetch that reads a flagged record returns the marker and writes
\* nothing, also when the stored token or a stored page token does not
\* decrypt; the step in which it returns leaves the table as it was.
FlaggedYieldsMarker ==
    Fetched /\ Flagged(last.record) => last.token_data = Marker /\ ~last.wrote

FlaggedFetchWritesNothing ==
    last' # last /\ last'.entry = "api" /\ Flagged(last'.record) => table' = table

C14_FlaggedSkipsDecryption ==
    []FlaggedYieldsMarker /\ [][FlaggedFetchWritesNothing]_vars

C14_Witness ==
    /\ Fetched
    /\ Flagged(last.record)
    /\ NotOfThisKey(last.record.ACCESS_TOKEN)
    /\ ~last.record.PAGES.isNull
    /\ \E i \in 1..Len(last.record.PAGES.json) :
          /\ HasAccessToken(last.record.PAGES.json[i])
          /\ NotOfThisKey(last.record.PAGES.json[i].access_token)
    /\ last.token_data = Marker
    /\ last.record \in table

\* C16: get_user_token always returns a value (None, the marker or a token
\* record); it returns None when the connection or the query failed or no
\* record is stored, and when the stored token or a stored page token of an
\* unflagged, unexpired record does not decrypt; a fetch that returned None
\* has written nothing, and the step in which it returns leaves the table as
\* it was.
UndecryptableStored(record) ==
    \/ NotOfThisKey(record.ACCESS_TOKEN)
    \/ /\ ~record.PAGES.isNull
       /\ \E i \in 1..Len(record.PAGES.json) :
             /\ HasAccessToken(record.PAGES.json[i])
             /\ NotOfThisKey(record.PAGES.json[i].access_token)

FetchDegradesToNone ==
    last.entry = "api"
       => /\ last.token_data.kind \in {"None", "Marker", "Record"}
          /\ last.record = NoRow => last.token_data = None /\ ~last.wrote
          /\ /\ last.record # NoRow
             /\ ~Flagged(last.record)
             /\ ~(last.record.TOKEN_EXPIRY < last.now)
             /\ UndecryptableStored(last.record)
             => last.token_data = None
          /\ last.token_data = None => ~last.wrote

NoneFetchWritesNothing ==
    last' # last /\ last'.entry = "api" /\ last'.token_data = None
       => table' = table

C16_FetchNeverRaises == []FetchDegradesToNone /\ [][NoneFetchWritesNothing]_vars

C16_Witness ==
    /\ Fetched
    /\ ~Flagged(last.record)
    /\ ~(last.record.TOKEN_EXPIRY < last.now)
    /\ last.record.ACCESS_TOKEN.kind = "fernet"
    /\ NotOfThisKey(last.record.ACCESS_TOKEN)
    /\ last.record.PAGES.isNull
    /\ last.token_data = None
    /\ last.record \in table

\* C15: store_existing_token makes no exchange and no upgrade request and
\* asks for the identity first; when that fails it returns False without
\* calling store_user_token; otherwise it calls store_user_token exactly
\* once, with expires_in = 60 * 86400, and returns what that returned.
PersistCalls(trace) ==
    Cardinality({i \in 1..Len(trace) : trace[i].stage = "persist"})

IdentityFirst(l) ==
    /\ Len(l.trace) >= 1
    /\ l.trace[1].stage = "identity"
    /\ \A i \in 1..Len(l.trace) : l.trace[i].stage \notin {"exchange", "upgrade"}
    /\ l.trace[1].outcome # "ok"
          => Len(l.trace) = 1 /\ l.success = "notcalled" /\ l.result = Bool(FALSE)

StoredOnceWithAssumedLifetime(l) ==
    /\ PersistCalls(l.trace) = 1
    /\ l.trace[Len(l.trace)].stage = "persist"
    /\ l.args.expires_in = 60 * 86400
    /\ l.success \in {"true", "false"}
    /\ l.result = Bool(l.success = "true")

C15_ExistingTokenFlow ==
    last.entry = "existing"
       => /\ IdentityFirst(last)
          /\ last.trace[1].outcome = "ok" => StoredOnceWithAssumedLifetime(last)

\* C15 as amended: after the identity was resolved, a pages request that
\* raises ends the call with False and without a store_user_token call; in
\* every other case store_user_token is called exactly once, as above.
PagesRaised(trace) ==
    \E i \in 1..Len(trace) :
        trace[i].stage = "pages" /\ trace[i].outcome \in {"network_error", "bad_json"}

C15_ExistingTokenFlowUnlessPagesRaise ==
    last.entry = "existing"
       => /\ IdentityFirst(last)
          /\ last.trace[1].outcome = "ok"
                => IF PagesRaised(last.trace)
                   THEN /\ PersistCalls(last.trace) = 0
                        /\ last.success = "notcalled"
                        /\ ~last.wrote
                        /\ last.result = Bool(FALSE)
                   ELSE StoredOnceWithAssumedLifetime(last)

C15_Witness ==
    /\ last.entry = "existing"
    /\ last.trace = <<Stage("identity", "ok"), Stage("pages", "ok"),
                      Stage("persist", "called")>>
    /\ last.args.expires_in = 5184000
    /\ last.success = "true"
    /\ last.result = Bool(TRUE)
    /\ \E r \in RowsOf(table, last.user_id) : r.TOKEN_EXPIRY >= 5184000

\* C17: when the linked accounts of the pages cannot be resolved, the flow
\* still calls store_user_token, with the listed pages less their linked
\* account, and a store that succeeds holds exactly those pages.
LinkedFailed(trace) ==
    \E i \in 1..Len(trace) : trace[i] = Stage("pages", "linked_error")

WithoutLinkedAccount(pages) ==
    [i \in 1..Len(pages) |-> [pages[i] EXCEPT !.instagram_business_account = "none"]]

C17_LinkedFailureKeepsPages ==
    last.entry \in {"oauth", "existing"} /\ LinkedFailed(last.trace)
       => /\ StoreCalled(last.trace)
          /\ last.args.pages = WithoutLinkedAccount(last.acct.pages)

\* C18: in one flow no request and no store_user_token call is made twice,
\* and a request that failed is the last call of the flow, which then
\* returns its failure result.
NoStageTwice(trace) ==
    \A i, j \in 1..Len(trace) : trace[i].stage = trace[j].stage => i = j

FailureResult(l) ==
    l.result = (IF l.entry = "oauth" THEN NoneResult ELSE Bool(FALSE))

C18_OneAttemptPerStage ==
    /\ \A p \in Procs : NoStageTwice(proc[p].trace)
    /\ last.entry \in {"oauth", "existing"}
          => /\ NoStageTwice(last.trace)
             /\ \A i \in 1..Len(last.trace) :
                   last.trace[i].outcome \notin {"ok", "called"}
                      => i = Len(last.trace) /\ FailureResult(last)

\* C19: the step that merges an upsert leaves the user's record with
\* LAST_REFRESHED at the time of the statement and NEEDS_REAUTH false,
\* whether the record was inserted or overwritten.
RefreshedOnUpsert ==
    \A p \in Procs :
        proc[p].pc = "u_merge" /\ proc'[p].pc = "idle" /\ last'.success = "true"
           => /\ RowsOf(table', proc[p].user_id) # {}
              /\ \A r \in RowsOf(table', proc[p].user_id) :
                    /\ r.LAST_REFRESHED = Ts(clock)
                    /\ r.NEEDS_REAUTH = "FALSE"

C19_LastRefreshedOnUpsert == [][RefreshedOnUpsert]_vars

\* C20: complete_oauth_flow returns {user_info, pages} only when
\* store_user_token returned True; when the four requests succeeded and
\* store_user_token returned False it returns None, has written nothing,
\* and the step in which it returns leaves the table as it was.
ConnectedOnlyAfterStore ==
    last.entry = "oauth"
       => /\ last.result.kind = "Connected"
                => /\ last.success = "true"
                   /\ last.wrote
                   /\ last.result.user_info = last.acct.meta_user_id
                   /\ last.result.pages = last.args.pages
          /\ last.success = "false"
                => /\ last.result = NoneResult
                   /\ ~last.wrote

FailedStoreLeavesTable ==
    last' # last /\ last'.entry = "oauth" /\ last'.success = "false"
       => table' = table

C20_ResultOnlyAfterStore ==
    []ConnectedOnlyAfterStore /\ [][FailedStoreLeavesTable]_vars

C20_Witness ==
    /\ last.entry = "oauth"
    /\ Len(last.trace) = 5
    /\ \A i \in 1..4 : last.trace[i].outcome = "ok"
    /\ last.trace[5].stage = "persist"
    /\ last.success = "false"
    /\ last.result = NoneResult
    /\ ~last.wrote

\* C21: with calls run one at a time and a clock that never goes back, every
\* flagged record has an expiry before the current clock ...
FlaggedIsExpired ==
    \A r \in table : Flagged(r) => r.TOKEN_EXPIRY < clock

\* ... the flag is raised only by the step of a fetch that saw the record
\* expired, and every step that changes an expiry leaves the record unflagged.
FlagRaisedOnlyOnExpiry ==
    \A r \in table : \A q \in table' :
        q.USER_ID = r.USER_ID
           => /\ ~Flagged(r) /\ Flagged(q)
                    => \E p \in Procs :
                          /\ proc[p].pc = "f_mark"
                          /\ proc[p].user_id = r.USER_ID
                          /\ proc[p].record.TOKEN_EXPIRY < proc[p].now
              /\ q.TOKEN_EXPIRY # r.TOKEN_EXPIRY
                    => /\ ~Flagged(q)
                       /\ \E p \in Procs : proc[p].pc = "u_merge"

C21_FlagOnlyWhenExpired == []FlaggedIsExpired /\ [][FlagRaisedOnlyOnExpiry]_vars

C21_Witness ==
    /\ last.entry = "api"
    /\ last.wrote
    /\ written[last.user_id].merged
    /\ written[last.user_id].now >= 0
    /\ \E r \in RowsOf(table, last.user_id) : Flagged(r) /\ r.TOKEN_EXPIRY < clock

\* C22: a fetch that returned a token record, None, or the marker for a
\* record that was already flagged has written nothing ...
ReadOnlyFetch ==
    /\ last.entry = "api"
    /\ \/ last.token_data.kind \in {"Record", "None"}
       \/ last.token_data = Marker /\ Flagged(last.record)
    => ~last.wrote

\* ... every step of a fetch other than the flag write of an expired record
\* leaves the whole table as it was, and no step changes the record of a
\* user other than the one the call is for ...
OnlyTheMarkStepWrites ==
    \A p \in Procs :
        /\ proc'[p] # proc[p] \/ last' # last
        /\ proc[p].pc \in {"idle", "f_check"}
        /\ proc'[p].entry = "api" \/ (proc'[p].pc = "idle" /\ last'.entry = "api")
        /\ \A q \in Procs \ {p} : proc'[q] = proc[q]
        => table' = table

OtherRecordsUntouched ==
    \A p \in Procs :
        proc[p].pc \in {"u_merge", "f_mark"}
           => \A r \in table : r.USER_ID # proc[p].user_id => r \in table'

\* ... and neither statement, run for any user on any stored table, changes
\* the records of another user.
StatementsKeyedByUser ==
    \A u \in Users \cup {OtherUser, AbsentUser} :
        \A r \in table :
            r.USER_ID # u
               => /\ r \in MarkUpdate(table, u)
                  /\ \A a \in UpsertInputs :
                        LET enc == Prepared(a, clock)
                        IN r \in Merge(table, u, a.meta_user_id, enc.encrypted_token,
                                       enc.expiry_date, enc.encrypted_pages, clock, schema)

C22_FetchReadOnly ==
    /\ [](ReadOnlyFetch /\ StatementsKeyedByUser)
    /\ [][OnlyTheMarkStepWrites /\ OtherRecordsUntouched]_vars

C22_Witness ==
    /\ last.entry = "api"
    /\ last.token_data.kind = "Record"
    /\ ~last.wrote
    /\ last.record \in table
    /\ BystanderRow \in table
    /\ \E r \in RowsOf(table, last.user_id) : r = last.record

\* C23: the MERGE of an upsert called with no pages leaves PAGES of the
\* user's record NULL, whatever it held before ...
EmptyPagesStoredAsNull ==
    \A p \in Procs :
        /\ proc[p].pc = "u_merge"
        /\ proc[p].args.pages = << >>
        /\ proc'[p].pc = "idle"
        /\ last'.success = "true"
        => /\ RowsOf(table', proc[p].user_id) # {}
           /\ \A r \in RowsOf(table', proc[p].user_id) : r.PAGES = NullPages

\* ... and a fetch that reads the record of such an upsert, unflagged and
\* unexpired, returns a token record whose pages is None, not an empty list.
NoPagesFetchedAsNone ==
    /\ Fetched
    /\ last.seen.merged
    /\ last.seen.args.pages = << >>
    /\ ~Flagged(last.record)
    /\ ~(last.record.TOKEN_EXPIRY < last.now)
    => /\ last.record.PAGES.isNull
       /\ last.token_data.kind = "Record"
       /\ last.token_data.pages.isNone
       /\ last.token_data.pages # [isNone |-> FALSE, list |-> << >>]
       /\ last.token_data.access_token = last.seen.args.access_token

C23_NoPagesStoredAsNull == []NoPagesFetchedAsNone /\ [][EmptyPagesStoredAsNull]_vars

C23_Witness ==
    /\ Fetched
    /\ last.seen.merged
    /\ last.seen.now >= 0
    /\ last.seen.args.pages = << >>
    /\ last.record.PAGES.isNull
    /\ last.token_data.kind = "Record"
    /\ last.token_data.pages.isNone

====
